---- MODULE Spec2Model ----
(***************************************************************************)
(* Model of the five rate-limiting functions of src/src/main.ts            *)
(* (RateLimitUsingFixedWindow, RateLimitUsingLeakyBucket,                  *)
(* RateLimitUsingSlidingLogs, RateLimitUsingSlidingWindow,                 *)
(* RateLimitUsingTokenBucket) running against one shared Redis store.      *)
(*                                                                         *)
(* Every `await client.<command>(...)` is one atomic step of a process;    *)
(* the synchronous code that follows it (comparisons, clock readings, the  *)
(* return) belongs to the same step.  The ...ConcSpec specifications        *)
(* interleave the steps of several calls; Spec and the other ...Spec       *)
(* specifications run the calls one after the other.                       *)
(***************************************************************************)
EXTENDS Integers, Sequences, FiniteSets, TLC

\* ------------------------------------------------------------------ bounds
\* Largest clock reading (Unix seconds) the model follows.
MaxTime == 4
\* intervalInSeconds ranges over 1..MaxInterval.
MaxInterval == 2
\* maximumRequests ranges over 1..MaxRequests.
MaxRequests == 2
\* Calls started in one behaviour.
MaxCalls == 4
\* Calls that may be in flight at once under ConcSpec.
NumProcs == 2
\* uniqueRequestID ranges over 1..MaxEventID.
MaxEventID == 3

Users == {"u1"}
Procs == 1..NumProcs
EventIDs == 1..MaxEventID
Strategies ==
  {"FixedWindow", "LeakyBucket", "SlidingLogs", "SlidingWindow", "TokenBucket"}

\* The factor of the compaction threshold, maximumRequests * 100.
CompactFactor == 100

\* What client.get answers for a key that does not exist.
Null == -1000
\* A key without a time to live.
NoExpiry == -1
\* The lower bound -Infinity of zRemRangeByScore: scores are clock readings,
\* which are never negative.
NegInfinity == -1

VARIABLES
  strategy,           \* the function the callers invoke
  intervalInSeconds,  \* its argument intervalInSeconds
  maximumRequests,    \* its argument maximumRequests
  clock,              \* what dayjs().utc().unix() answers now
  kv,                 \* the store's string keys: key -> [val, exp]
  lists,              \* the store's lists: userID -> sequence of members
  zsets,              \* the store's sorted sets: userID -> (member -> score)
  proc,               \* the calls in flight: position and local variables
  trace,              \* history: the calls that returned, in order of return
  before,             \* history: the store when the last call started
  requestIDs          \* history: the uniqueRequestIDs the calls came with

vars ==
  <<strategy, intervalInSeconds, maximumRequests, clock, kv, lists, zsets,
    proc, trace, before, requestIDs>>

\* ------------------------------------------------------------- store keys
\* `${userID}:${currentWindow}`
WindowKey(userID, window) == <<userID, "window", window>>
\* `${userID}:last_reset_time`
KeyResetTime(userID) == <<userID, "last_reset_time", 0>>
\* `${userID}:count`
KeyCount(userID) == <<userID, "count", 0>>

\* --------------------------------------------------------- store commands
\* GET: the value, or null when the key does not exist.
Get(s, key) == IF key \in DOMAIN s THEN s[key].val ELSE Null

\* EXISTS
Exists(s, key) == key \in DOMAIN s

\* SET key value EX seconds: the key expires `seconds` after now.
SetEX(s, key, value, seconds, now) ==
  [k \in (DOMAIN s) \cup {key} |->
    IF k = key THEN [val |-> value, exp |-> now + seconds] ELSE s[k]]

\* SET key value: any time to live of the key is dropped.
Set(s, key, value) ==
  [k \in (DOMAIN s) \cup {key} |->
    IF k = key THEN [val |-> value, exp |-> NoExpiry] ELSE s[k]]

\* INCR: a key that does not exist counts as 0 and is created without a
\* time to live; an existing key keeps its time to live.
Incr(s, key) ==
  [k \in (DOMAIN s) \cup {key} |->
    IF k = key
      THEN IF key \in DOMAIN s
             THEN [val |-> s[key].val + 1, exp |-> s[key].exp]
             ELSE [val |-> 1, exp |-> NoExpiry]
      ELSE s[k]]

\* DECR: as INCR, downwards.
Decr(s, key) ==
  [k \in (DOMAIN s) \cup {key} |->
    IF k = key
      THEN IF key \in DOMAIN s
             THEN [val |-> s[key].val - 1, exp |-> s[key].exp]
             ELSE [val |-> 0 - 1, exp |-> NoExpiry]
      ELSE s[k]]

\* The keys still alive at time `now`.
Purge(s, now) ==
  [k \in {x \in DOMAIN s : s[x].exp = NoExpiry \/ s[x].exp > now} |-> s[k]]

\* LLEN
LLen(l) == Len(l)

\* A pop that takes nothing off the list.
RPop_Keep(l) == l

\* RPOP: drops the member at the tail; nothing happens to an empty list.
RPop(l) == IF Len(l) = 0 THEN l ELSE SubSeq(l, 1, Len(l) - 1)

\* RPUSH: appends at the tail.
RPush(l, member) == Append(l, member)

\* ZCOUNT with the lower bound taken as exclusive, "(min".
ZCount_ExclusiveMin(z, min, max) ==
  Cardinality({m \in DOMAIN z : min < z[m] /\ z[m] <= max})

\* ZCOUNT key min max: the members with min <= score <= max.
ZCount(z, min, max) ==
  Cardinality({m \in DOMAIN z : min <= z[m] /\ z[m] <= max})

\* ZADD: a member already in the set only has its score replaced.
ZAdd(z, score, member) ==
  [m \in (DOMAIN z) \cup {member} |-> IF m = member THEN score ELSE z[m]]

\* ZREMRANGEBYSCORE key min max: drops the members with min <= score <= max.
ZRemRangeByScore(z, min, max) ==
  [m \in {x \in DOMAIN z : ~(min <= z[x] /\ z[x] <= max)} |-> z[m]]

\* ------------------------------------------------------------------ clock
\* dayjs's set(unit, value): a NEW date with the seconds of the minute set
\* to `value`; the date it is called on is left as it was.
SetSecond(time, value) == time - (time % 60) + value

\* currentTime = dayjs().utc(); currentTime.set('second', 0);
\* currentWindow = currentTime.unix(): the result of set is dropped, so the
\* window is the clock reading itself.
CurrentWindow(now) ==
  LET currentTime == now
      dropped     == SetSecond(currentTime, 0)
  IN  currentTime

\* --------------------------------------------------------------- processes
Idle ==
  [pc |-> "idle", userID |-> "", uniqueRequestID |-> 0, at |-> 0,
   currentTime |-> 0, currentWindowCount |-> 0, resetTime |-> 0]

\* The first store command of each function.
FirstPc ==
  [s \in Strategies |->
    CASE s = "FixedWindow"   -> "fw_get"
      [] s = "LeakyBucket"   -> "lb_llen"
      [] s = "SlidingLogs"   -> "sl_zcount"
      [] s = "SlidingWindow" -> "sw_get_current"
      [] s = "TokenBucket"   -> "tb_get_reset_time"]

Active == {p \in Procs : proc[p].pc # "idle"}
Started == Len(trace) + Cardinality(Active)

\* The sorted set that a burst of concurrent calls at time 0 leaves behind
\* when each of them counts before any of them adds: the smallest one with
\* more than maximumRequests * 100 members, for maximumRequests = 1.
FloodSize == CompactFactor + 1
FloodIDs == (MaxEventID + MaxCalls + 1)..(MaxEventID + MaxCalls + FloodSize)
FloodLog == [m \in FloodIDs |-> 0]
EmptyLog == [m \in {} |-> 0]

Init ==
  /\ strategy \in Strategies
  /\ intervalInSeconds \in 1..MaxInterval
  /\ maximumRequests \in 1..MaxRequests
  /\ clock = 0
  /\ kv = [k \in {} |-> [val |-> 0, exp |-> NoExpiry]]
  /\ lists = [u \in Users |-> <<>>]
  /\ \E flood \in IF /\ strategy = "SlidingLogs"
                      /\ FloodSize > maximumRequests * CompactFactor
                     THEN BOOLEAN ELSE {FALSE} :
       zsets = [u \in Users |-> IF flood /\ u = "u1" THEN FloodLog ELSE EmptyLog]
  /\ proc = [p \in Procs |-> Idle]
  /\ trace = <<>>
  /\ before = [kv |-> kv, lists |-> lists, zsets |-> zsets]
  /\ requestIDs = [used |-> {}, distinct |-> TRUE]

\* The function returns `allowed`: the call leaves, and the history notes it.
Return(p, allowed) ==
  /\ proc' = [proc EXCEPT ![p] = Idle]
  /\ trace' = Append(trace,
       [userID |-> proc[p].userID, now |-> proc[p].at, allowed |-> allowed])

Goto(p, label) ==
  /\ proc' = [proc EXCEPT ![p].pc = label]
  /\ UNCHANGED trace

\* The functions that take a uniqueRequestID.
TakesRequestID == strategy \in {"LeakyBucket", "SlidingLogs"}

\* A caller invokes the configured function with a uniqueRequestID out of
\* `ids`.  The fixed window, sliding log and sliding window functions read the
\* clock before their first await.
Invoke(p, ids) ==
  /\ proc[p].pc = "idle"
  /\ Started < MaxCalls
  /\ \E u \in Users :
     \E e \in IF TakesRequestID THEN ids ELSE {0} :
       /\ proc' = [proc EXCEPT ![p] =
         [pc |-> FirstPc[strategy], userID |-> u, uniqueRequestID |-> e,
          at |-> clock,
          currentTime |->
            CASE strategy \in {"FixedWindow", "SlidingWindow"} -> CurrentWindow(clock)
              [] strategy = "SlidingLogs" -> clock
              [] OTHER -> 0,
          currentWindowCount |-> 0, resetTime |-> 0]]
       /\ requestIDs' =
            IF TakesRequestID
              THEN [used     |-> requestIDs.used \cup {e},
                    distinct |-> requestIDs.distinct /\ e \notin requestIDs.used]
              ELSE requestIDs
  /\ before' = [kv |-> kv, lists |-> lists, zsets |-> zsets]
  /\ UNCHANGED <<strategy, intervalInSeconds, maximumRequests, clock, kv, lists,
                 zsets, trace>>

\* A call whose uniqueRequestID is any of EventIDs, used before or not.
Start(p) == Invoke(p, EventIDs)

\* A call whose uniqueRequestID no call before it had.
StartUnique(p) == Invoke(p, {MaxEventID + Started + 1})

\* ------------------------------------------- RateLimitUsingFixedWindow
\* value = await client.get(key); if (value && +value >= maximumRequests)
FW_Get(p) ==
  /\ proc[p].pc = "fw_get"
  /\ LET key   == WindowKey(proc[p].userID, proc[p].currentTime)
         value == Get(kv, key)
     IN  IF value # Null /\ value >= maximumRequests
           THEN Return(p, FALSE)
           ELSE Goto(p, "fw_exists")
  /\ UNCHANGED <<strategy, intervalInSeconds, maximumRequests, clock, kv, lists,
                 zsets, before, requestIDs>>

\* exist = await client.exists(key)
FW_Exists(p) ==
  /\ proc[p].pc = "fw_exists"
  /\ LET key == WindowKey(proc[p].userID, proc[p].currentTime)
     IN  Goto(p, IF Exists(kv, key) THEN "fw_incr" ELSE "fw_set")
  /\ UNCHANGED <<strategy, intervalInSeconds, maximumRequests, clock, kv, lists,
                 zsets, before, requestIDs>>

\* await client.incr(key); return true
FW_Incr(p) ==
  /\ proc[p].pc = "fw_incr"
  /\ kv' = Incr(kv, WindowKey(proc[p].userID, proc[p].currentTime))
  /\ Return(p, TRUE)
  /\ UNCHANGED <<strategy, intervalInSeconds, maximumRequests, clock, lists,
                 zsets, before, requestIDs>>

\* await client.set(key, 0, { EX: intervalInSeconds * 2 }); return true
FW_Set(p) ==
  /\ proc[p].pc = "fw_set"
  /\ kv' = SetEX(kv, WindowKey(proc[p].userID, proc[p].currentTime), 0,
                 intervalInSeconds * 2, clock)
  /\ Return(p, TRUE)
  /\ UNCHANGED <<strategy, intervalInSeconds, maximumRequests, clock, lists,
                 zsets, before, requestIDs>>

\* ------------------------------------------- RateLimitUsingLeakyBucket
\* lLen with the queue compared by > where the code has >=.
LB_LLen_Above(p) ==
  /\ proc[p].pc = "lb_llen"
  /\ LET count == LLen(lists[proc[p].userID])
     IN  IF count > maximumRequests
           THEN Return(p, FALSE)
           ELSE Goto(p, "lb_rpop")
  /\ UNCHANGED <<strategy, intervalInSeconds, maximumRequests, clock, kv, lists,
                 zsets, before, requestIDs>>

\* count = await client.lLen(key); if (count >= maximumRequests) return false
LB_LLen(p) ==
  /\ proc[p].pc = "lb_llen"
  /\ LET count == LLen(lists[proc[p].userID])
     IN  IF count >= maximumRequests
           THEN Return(p, FALSE)
           ELSE Goto(p, "lb_rpop")
  /\ UNCHANGED <<strategy, intervalInSeconds, maximumRequests, clock, kv, lists,
                 zsets, before, requestIDs>>

\* Promise.all([client.rPop(key), client.rPush(...)]): the client sends the
\* two commands in this order; rPop is the first.
LB_RPop(p) ==
  /\ proc[p].pc = "lb_rpop"
  /\ lists' = [lists EXCEPT ![proc[p].userID] = RPop(@)]
  /\ Goto(p, "lb_rpush")
  /\ UNCHANGED <<strategy, intervalInSeconds, maximumRequests, clock, kv, zsets,
                 before, requestIDs>>

\* client.rPush(key, uniqueRequestID); then `return false`.
LB_RPush(p) ==
  /\ proc[p].pc = "lb_rpush"
  /\ lists' = [lists EXCEPT ![proc[p].userID] = RPush(@, proc[p].uniqueRequestID)]
  /\ Return(p, FALSE)
  /\ UNCHANGED <<strategy, intervalInSeconds, maximumRequests, clock, kv, zsets,
                 before, requestIDs>>

\* ------------------------------------------- RateLimitUsingSlidingLogs
\* lastWindowTime = currentTime - intervalInSeconds
LastWindowTime(currentTime) == currentTime - intervalInSeconds

\* requestCount = await client.zCount(key, lastWindowTime, currentTime)
SL_ZCount(p) ==
  /\ proc[p].pc = "sl_zcount"
  /\ LET requestCount ==
           ZCount(zsets[proc[p].userID], LastWindowTime(proc[p].currentTime),
                  proc[p].currentTime)
     IN  Goto(p, IF requestCount >= maximumRequests THEN "sl_zcount_again"
                                                    ELSE "sl_zadd")
  /\ UNCHANGED <<strategy, intervalInSeconds, maximumRequests, clock, kv, lists,
                 zsets, before, requestIDs>>

\* requestCountFromStart = await client.zCount(key, lastWindowTime, currentTime)
\* if (requestCountFromStart > maximumRequests * 100) ... else return false
SL_ZCountAgain(p) ==
  /\ proc[p].pc = "sl_zcount_again"
  /\ LET requestCountFromStart ==
           ZCount(zsets[proc[p].userID], LastWindowTime(proc[p].currentTime),
                  proc[p].currentTime)
     IN  IF requestCountFromStart > maximumRequests * CompactFactor
           THEN Goto(p, "sl_zrem")
           ELSE Return(p, FALSE)
  /\ UNCHANGED <<strategy, intervalInSeconds, maximumRequests, clock, kv, lists,
                 zsets, before, requestIDs>>

\* await client.zRemRangeByScore(key, -Infinity, lastWindowTime); return false
SL_ZRem(p) ==
  /\ proc[p].pc = "sl_zrem"
  /\ zsets' = [zsets EXCEPT ![proc[p].userID] =
       ZRemRangeByScore(@, NegInfinity, LastWindowTime(proc[p].currentTime))]
  /\ Return(p, FALSE)
  /\ UNCHANGED <<strategy, intervalInSeconds, maximumRequests, clock, kv, lists,
                 before, requestIDs>>

\* await client.zAdd(key, { score: currentTime, value: uniqueRequestID })
\* return true
SL_ZAdd(p) ==
  /\ proc[p].pc = "sl_zadd"
  /\ zsets' = [zsets EXCEPT ![proc[p].userID] =
       ZAdd(@, proc[p].currentTime, proc[p].uniqueRequestID)]
  /\ Return(p, TRUE)
  /\ UNCHANGED <<strategy, intervalInSeconds, maximumRequests, clock, kv, lists,
                 before, requestIDs>>

\* ------------------------------------------- RateLimitUsingSlidingWindow
\* x === null ? 0 : +x
Count(value) == IF value = Null THEN 0 ELSE value

\* Math.trunc((currentWindow % intervalInSeconds) / intervalInSeconds): the
\* operands are not negative, so truncation is the integer quotient.
ElapsedTimePercentage(currentWindow) ==
  (currentWindow % intervalInSeconds) \div intervalInSeconds

\* lastWindowCount * (1 - elapsedTimePercentage) + currentWindowCount
Estimate(lastWindowCount, currentWindowCount, currentWindow) ==
  lastWindowCount * (1 - ElapsedTimePercentage(currentWindow)) + currentWindowCount

\* The estimate compared with the limit.
EstimateDenies_AtLimit(lastWindowCount, currentWindowCount, currentWindow) ==
  Estimate(lastWindowCount, currentWindowCount, currentWindow) >= maximumRequests

\* if (<estimate>): a number is truthy when it is not 0.
EstimateDenies(lastWindowCount, currentWindowCount, currentWindow) ==
  Estimate(lastWindowCount, currentWindowCount, currentWindow) # 0

\* currentWindowValue = await client.get(keyCurrentWindow)
\* if (currentWindowCount >= maximumRequests) return false
SW_GetCurrent(p) ==
  /\ proc[p].pc = "sw_get_current"
  /\ LET keyCurrentWindow   == WindowKey(proc[p].userID, proc[p].currentTime)
         currentWindowCount == Count(Get(kv, keyCurrentWindow))
     IN  IF currentWindowCount >= maximumRequests
           THEN Return(p, FALSE)
           ELSE /\ proc' = [proc EXCEPT ![p].pc = "sw_get_last",
                                        ![p].currentWindowCount = currentWindowCount]
                /\ UNCHANGED trace
  /\ UNCHANGED <<strategy, intervalInSeconds, maximumRequests, clock, kv, lists,
                 zsets, before, requestIDs>>

\* lastWindow = currentTime.unix() - intervalInSeconds
\* lastWindowValue = await client.get(keyLastWindow)
\* if (lastWindowCount * (1 - elapsedTimePercentage) + currentWindowCount)
\*   return false
SW_GetLast(p) ==
  /\ proc[p].pc = "sw_get_last"
  /\ LET lastWindow      == proc[p].currentTime - intervalInSeconds
         keyLastWindow   == WindowKey(proc[p].userID, lastWindow)
         lastWindowCount == Count(Get(kv, keyLastWindow))
     IN  IF EstimateDenies(lastWindowCount, proc[p].currentWindowCount,
                           proc[p].currentTime)
           THEN Return(p, FALSE)
           ELSE Goto(p, "sw_exists")
  /\ UNCHANGED <<strategy, intervalInSeconds, maximumRequests, clock, kv, lists,
                 zsets, before, requestIDs>>

\* exist = await client.exists(keyCurrentWindow)
SW_Exists(p) ==
  /\ proc[p].pc = "sw_exists"
  /\ LET keyCurrentWindow == WindowKey(proc[p].userID, proc[p].currentTime)
     IN  Goto(p, IF Exists(kv, keyCurrentWindow) THEN "sw_incr" ELSE "sw_set")
  /\ UNCHANGED <<strategy, intervalInSeconds, maximumRequests, clock, kv, lists,
                 zsets, before, requestIDs>>

\* await client.incr(keyCurrentWindow); return true
SW_Incr(p) ==
  /\ proc[p].pc = "sw_incr"
  /\ kv' = Incr(kv, WindowKey(proc[p].userID, proc[p].currentTime))
  /\ Return(p, TRUE)
  /\ UNCHANGED <<strategy, intervalInSeconds, maximumRequests, clock, lists,
                 zsets, before, requestIDs>>

\* await client.set(keyCurrentWindow, 0, { EX: intervalInSeconds * 5 })
\* return true
SW_Set(p) ==
  /\ proc[p].pc = "sw_set"
  /\ kv' = SetEX(kv, WindowKey(proc[p].userID, proc[p].currentTime), 0,
                 intervalInSeconds * 5, clock)
  /\ Return(p, TRUE)
  /\ UNCHANGED <<strategy, intervalInSeconds, maximumRequests, clock, lists,
                 zsets, before, requestIDs>>

\* ------------------------------------------- RateLimitUsingTokenBucket
\* lastRestTimeValue = await client.get(keyResetTime)
\* if (dayjs().utc().unix() - lastRestTimeCount >= intervalInSeconds)
TB_GetResetTime(p) ==
  /\ proc[p].pc = "tb_get_reset_time"
  /\ LET lastRestTimeCount == Count(Get(kv, KeyResetTime(proc[p].userID)))
     IN  proc' = [proc EXCEPT
           ![p].pc = IF clock - lastRestTimeCount >= intervalInSeconds
                       THEN "tb_set_count" ELSE "tb_get_count",
           ![p].currentTime = clock]
  /\ UNCHANGED <<strategy, intervalInSeconds, maximumRequests, clock, kv, lists,
                 zsets, trace, before, requestIDs>>

\* await client.set(keyCount, maximumRequests); the argument of the next
\* command, dayjs().utc().unix(), is read once this one has answered.
TB_SetCount(p) ==
  /\ proc[p].pc = "tb_set_count"
  /\ kv' = Set(kv, KeyCount(proc[p].userID), maximumRequests)
  /\ proc' = [proc EXCEPT ![p].pc = "tb_set_reset_time", ![p].resetTime = clock]
  /\ UNCHANGED <<strategy, intervalInSeconds, maximumRequests, clock, lists,
                 zsets, trace, before, requestIDs>>

\* await client.set(keyResetTime, <the clock reading>)
TB_SetResetTime(p) ==
  /\ proc[p].pc = "tb_set_reset_time"
  /\ kv' = Set(kv, KeyResetTime(proc[p].userID), proc[p].resetTime)
  /\ Goto(p, "tb_decr")
  /\ UNCHANGED <<strategy, intervalInSeconds, maximumRequests, clock, lists,
                 zsets, before, requestIDs>>

\* get of the count with the call denied below 0 only, not at 0.
TB_GetCount_BelowZero(p) ==
  /\ proc[p].pc = "tb_get_count"
  /\ LET count == Count(Get(kv, KeyCount(proc[p].userID)))
     IN  IF count < 0 THEN Return(p, FALSE) ELSE Goto(p, "tb_decr")
  /\ UNCHANGED <<strategy, intervalInSeconds, maximumRequests, clock, kv, lists,
                 zsets, before, requestIDs>>

\* countValue = await client.get(keyCount); if (count <= 0) return false
TB_GetCount(p) ==
  /\ proc[p].pc = "tb_get_count"
  /\ LET count == Count(Get(kv, KeyCount(proc[p].userID)))
     IN  IF count <= 0 THEN Return(p, FALSE) ELSE Goto(p, "tb_decr")
  /\ UNCHANGED <<strategy, intervalInSeconds, maximumRequests, clock, kv, lists,
                 zsets, before, requestIDs>>

\* await client.decr(keyCount); return true
TB_Decr(p) ==
  /\ proc[p].pc = "tb_decr"
  /\ kv' = Decr(kv, KeyCount(proc[p].userID))
  /\ Return(p, TRUE)
  /\ UNCHANGED <<strategy, intervalInSeconds, maximumRequests, clock, lists,
                 zsets, before, requestIDs>>

\* ------------------------------------------------------------------ time
\* A second passes; the store drops the keys whose time to live is over.
Tick ==
  /\ clock < MaxTime
  /\ clock' = clock + 1
  /\ kv' = Purge(kv, clock + 1)
  /\ UNCHANGED <<strategy, intervalInSeconds, maximumRequests, lists, zsets,
                 proc, trace, before, requestIDs>>

\* A second passes between two calls.
TickBetweenCalls ==
  /\ Active = {}
  /\ Tick

\* One store command of the call p is in, function by function.
FixedWindowStep(p) == FW_Get(p) \/ FW_Exists(p) \/ FW_Incr(p) \/ FW_Set(p)

LeakyBucketStep(p) == LB_LLen(p) \/ LB_RPop(p) \/ LB_RPush(p)

SlidingLogsStep(p) ==
  SL_ZCount(p) \/ SL_ZCountAgain(p) \/ SL_ZRem(p) \/ SL_ZAdd(p)

SlidingWindowStep(p) ==
  SW_GetCurrent(p) \/ SW_GetLast(p) \/ SW_Exists(p) \/ SW_Incr(p) \/ SW_Set(p)

TokenBucketStep(p) ==
  \/ TB_GetResetTime(p) \/ TB_SetCount(p) \/ TB_SetResetTime(p)
  \/ TB_GetCount(p) \/ TB_Decr(p)

\* ------------------------------------------------------ sequential calls
\* One caller, which starts a call when the one before has returned; a call
\* takes no time.  Spec lets the caller be configured with any of the five
\* functions; the specifications after it fix the function.
Next ==
  \/ Start(1)
  \/ FixedWindowStep(1)
  \/ LeakyBucketStep(1)
  \/ SlidingLogsStep(1)
  \/ SlidingWindowStep(1)
  \/ TokenBucketStep(1)
  \/ TickBetweenCalls

Spec == Init /\ [][Next]_vars

InitFixedWindow == Init /\ strategy = "FixedWindow"
FixedWindowNext == Start(1) \/ FixedWindowStep(1) \/ TickBetweenCalls
FixedWindowSpec == InitFixedWindow /\ [][FixedWindowNext]_vars

InitLeakyBucket == Init /\ strategy = "LeakyBucket"
LeakyBucketNext == Start(1) \/ LeakyBucketStep(1) \/ TickBetweenCalls
LeakyBucketSpec == InitLeakyBucket /\ [][LeakyBucketNext]_vars

InitSlidingLogs == Init /\ strategy = "SlidingLogs"
SlidingLogsNext == Start(1) \/ SlidingLogsStep(1) \/ TickBetweenCalls
SlidingLogsSpec == InitSlidingLogs /\ [][SlidingLogsNext]_vars

InitSlidingWindow == Init /\ strategy = "SlidingWindow"
SlidingWindowNext == Start(1) \/ SlidingWindowStep(1) \/ TickBetweenCalls
SlidingWindowSpec == InitSlidingWindow /\ [][SlidingWindowNext]_vars

InitTokenBucket == Init /\ strategy = "TokenBucket"
TokenBucketNext == Start(1) \/ TokenBucketStep(1) \/ TickBetweenCalls
TokenBucketSpec == InitTokenBucket /\ [][TokenBucketNext]_vars

\* ------------------------------------------------------ concurrent calls
\* Up to NumProcs calls in flight, their store commands interleaved in any
\* order; time passes at any point.  Every call comes with a uniqueRequestID
\* of its own.
FixedWindowConcNext ==
  \/ \E p \in Procs : StartUnique(p)
  \/ \E p \in Procs : FixedWindowStep(p)
  \/ Tick
FixedWindowConcSpec == InitFixedWindow /\ [][FixedWindowConcNext]_vars

LeakyBucketConcNext ==
  \/ \E p \in Procs : StartUnique(p)
  \/ \E p \in Procs : LeakyBucketStep(p)
  \/ Tick
LeakyBucketConcSpec == InitLeakyBucket /\ [][LeakyBucketConcNext]_vars

SlidingLogsConcNext ==
  \/ \E p \in Procs : StartUnique(p)
  \/ \E p \in Procs : SlidingLogsStep(p)
  \/ Tick
SlidingLogsConcSpec == InitSlidingLogs /\ [][SlidingLogsConcNext]_vars

SlidingWindowConcNext ==
  \/ \E p \in Procs : StartUnique(p)
  \/ \E p \in Procs : SlidingWindowStep(p)
  \/ Tick
SlidingWindowConcSpec == InitSlidingWindow /\ [][SlidingWindowConcNext]_vars

TokenBucketConcNext ==
  \/ \E p \in Procs : StartUnique(p)
  \/ \E p \in Procs : TokenBucketStep(p)
  \/ Tick
TokenBucketConcSpec == InitTokenBucket /\ [][TokenBucketConcNext]_vars

\* The two window-counter functions, either configured.
InitWindow == Init /\ strategy \in {"FixedWindow", "SlidingWindow"}
WindowConcNext ==
  \/ \E p \in Procs : StartUnique(p)
  \/ \E p \in Procs : FixedWindowStep(p)
  \/ \E p \in Procs : SlidingWindowStep(p)
  \/ Tick
WindowConcSpec == InitWindow /\ [][WindowConcNext]_vars

\* ================================================================ claims
\* The call that returned last.
LastCall == trace[Len(trace)]

\* A call has returned, none is in flight, and no second has passed since it
\* started: the store is as the call left it.
JustReturned ==
  /\ trace # <<>>
  /\ Active = {}
  /\ clock = LastCall.now

\* The calls up to the i-th that used the i-th call's window key.
OnSameKeyUpTo(i) ==
  {j \in 1..i :
     WindowKey(trace[j].userID, CurrentWindow(trace[j].now))
       = WindowKey(trace[i].userID, CurrentWindow(trace[i].now))}

\* The calls before the j-th that were allowed at time t.
AdmittedAt(t, j) == {i \in 1..(j - 1) : trace[i].allowed /\ trace[i].now = t}

\* C1: fixed window, sequential calls: of the calls on one window key exactly
\* the first maximumRequests are allowed, every later one is denied.
C1_FirstMaxAllowedRestDenied ==
  strategy = "FixedWindow" =>
    \A i \in DOMAIN trace :
      trace[i].allowed <=> (Cardinality(OnSameKeyUpTo(i)) <= maximumRequests)

\* C2: token bucket, sequential calls on a fresh identity whose first call
\* is at time t, whatever t is: the first maximumRequests calls at time t are
\* allowed, the call after them at a time < t + intervalInSeconds is denied,
\* and the first call at a time >= t + intervalInSeconds is allowed.
C2_FreshLedgerFromAnyTime ==
  strategy = "TokenBucket" =>
    \A i \in DOMAIN trace :
      LET t        == trace[1].now
          burst    == \A j \in 1..i : j <= maximumRequests => trace[j].now = t
          earlier  == {j \in 1..(i - 1) : trace[j].now >= t + intervalInSeconds}
      IN  /\ (i <= maximumRequests /\ burst) => trace[i].allowed
          /\ (i = maximumRequests + 1 /\ burst /\ trace[i].now < t + intervalInSeconds)
               => ~trace[i].allowed
          /\ (i > maximumRequests /\ burst /\ trace[i].now >= t + intervalInSeconds
                /\ earlier = {})
               => trace[i].allowed

\* The entries of sorted set z whose score lies in [now - intervalInSeconds, now].
InWindow(z, now) ==
  {m \in DOMAIN z : now - intervalInSeconds <= z[m] /\ z[m] <= now}

\* The calls so far came with pairwise distinct uniqueRequestIDs.
DistinctRequestIDs == TakesRequestID /\ requestIDs.distinct

\* C3: sliding log, sequential calls: a call at time now is allowed exactly
\* when fewer than maximumRequests entries of the log have a score in
\* [now - intervalInSeconds, now]; and when the calls have pairwise distinct
\* uniqueRequestIDs, after maximumRequests admissions at time t a call at a time
\* <= t + intervalInSeconds is denied, and a call at a time > t + intervalInSeconds
\* (no call admitted after t before it) is allowed.
C3_AllowedIffWindowBelowMax ==
  strategy = "SlidingLogs" =>
    /\ (trace # <<>> /\ Active = {}) =>
         (LastCall.allowed <=>
            Cardinality(InWindow(before.zsets[LastCall.userID], LastCall.now))
              < maximumRequests)
    /\ DistinctRequestIDs =>
         \A j \in DOMAIN trace : \A t \in 0..MaxTime :
           Cardinality(AdmittedAt(t, j)) >= maximumRequests =>
             /\ trace[j].now <= t + intervalInSeconds => ~trace[j].allowed
             /\ (/\ trace[j].now > t + intervalInSeconds
                 /\ \A i \in 1..(j - 1) : trace[i].allowed => trace[i].now <= t)
                  => trace[j].allowed

\* C3's case: maximumRequests admissions at a time t, then a call within
\* t + intervalInSeconds that was denied, then one after it that was allowed.
C3_Witness ==
  /\ strategy = "SlidingLogs"
  /\ DistinctRequestIDs
  /\ Len(trace) = maximumRequests + 2
  /\ \A i \in 1..maximumRequests : trace[i].allowed /\ trace[i].now = trace[1].now
  /\ ~trace[maximumRequests + 1].allowed
  /\ trace[maximumRequests + 1].now = trace[1].now + intervalInSeconds
  /\ trace[maximumRequests + 2].allowed
  /\ trace[maximumRequests + 2].now = trace[1].now + intervalInSeconds + 1

\* C4: leaky bucket: a call that finds the queue shorter than maximumRequests
\* returns allowed = true.
C4_SpaceMeansAllowed ==
  (strategy = "LeakyBucket" /\ trace # <<>> /\ Active = {}) =>
    (LLen(before.lists[LastCall.userID]) < maximumRequests => LastCall.allowed)

\* C5: leaky bucket, concurrent calls: the queue of an identity never holds
\* more than maximumRequests members.
C5_QueueWithinCapacity ==
  strategy = "LeakyBucket" =>
    \A u \in Users : Len(lists[u]) <= maximumRequests

\* C6: token bucket, N concurrent calls on a fresh identity, all within less
\* than intervalInSeconds: once all have returned, exactly
\* min(N, maximumRequests) of them were allowed.  Stated for runs that start
\* once the clock has reached intervalInSeconds, where a fresh ledger is
\* filled by the first read (C2 is about the earlier start).
C6_ExactlyMinAllowed ==
  (/\ strategy = "TokenBucket"
   /\ trace # <<>>
   /\ Active = {}
   /\ \A i \in DOMAIN trace :
        trace[i].now >= intervalInSeconds /\ clock - trace[i].now < intervalInSeconds)
  => LET N == Len(trace)
         allowed == Cardinality({i \in DOMAIN trace : trace[i].allowed})
     IN  allowed = IF N <= maximumRequests THEN N ELSE maximumRequests

\* C7: every function: a call that returns denied leaves every key of the
\* store as it was when the call started.
C7_DeniedLeavesStore ==
  (JustReturned /\ ~LastCall.allowed) =>
    /\ kv = before.kv
    /\ lists = before.lists
    /\ zsets = before.zsets

\* C8: sliding window, sequential calls: once maximumRequests calls were
\* allowed at times less than intervalInSeconds apart, a further call within
\* that same stretch of intervalInSeconds is denied.
C8_DeniedAfterMaxInInterval ==
  strategy = "SlidingWindow" =>
    \A j \in DOMAIN trace :
      LET admitted ==
            {i \in 1..(j - 1) :
               trace[i].allowed /\ trace[j].now - trace[i].now < intervalInSeconds}
      IN  Cardinality(admitted) >= maximumRequests => ~trace[j].allowed

\* C9: fixed window and sliding window, concurrent calls: the value under a
\* window key is never above maximumRequests.
C9_CounterWithinLimit ==
  \A key \in DOMAIN kv : kv[key].val <= maximumRequests

\* C10: token bucket, concurrent calls: the stored count of remaining tokens is
\* never below 0 and never above maximumRequests.
C10_TokensInRange ==
  strategy = "TokenBucket" =>
    \A u \in Users :
      KeyCount(u) \in DOMAIN kv =>
        (0 <= kv[KeyCount(u)].val /\ kv[KeyCount(u)].val <= maximumRequests)

\* C11: leaky bucket, sequential calls: a call made while the queue holds
\* maximumRequests members (or more) is denied and leaves the queue, members
\* and order, as it was.
C11_FullQueueDeniedUnchanged ==
  (/\ strategy = "LeakyBucket"
   /\ trace # <<>>
   /\ Active = {}
   /\ LLen(before.lists[LastCall.userID]) >= maximumRequests)
  => /\ ~LastCall.allowed
     /\ lists = before.lists

\* C11's case: a call found the queue full and has returned.
C11_Witness ==
  /\ strategy = "LeakyBucket"
  /\ trace # <<>>
  /\ Active = {}
  /\ LLen(before.lists[LastCall.userID]) = maximumRequests
  /\ ~LastCall.allowed
  /\ lists = before.lists

\* C12: sliding log, concurrent calls with distinct uniqueRequestIDs that all
\* read one clock value, on a log without the members of an earlier burst: at
\* most maximumRequests of them are allowed, and the log never holds more
\* than maximumRequests entries with a score in [now - intervalInSeconds, now].
C12_ParallelWithinLimit ==
  (/\ strategy = "SlidingLogs"
   /\ DistinctRequestIDs
   /\ \A u \in Users : DOMAIN zsets[u] \cap FloodIDs = {}
   /\ \A u \in Users : DOMAIN before.zsets[u] \cap FloodIDs = {}
   /\ \A i \in DOMAIN trace : trace[i].now = clock
   /\ \A p \in Active : proc[p].at = clock)
  => /\ Cardinality({i \in DOMAIN trace : trace[i].allowed}) <= maximumRequests
     /\ \A u \in Users : Cardinality(InWindow(zsets[u], clock)) <= maximumRequests

\* The estimate currentCount + previousCount * (1 - elapsedFraction) of the
\* call that returned last, times intervalInSeconds (so that it is a whole
\* number), from the two counters as they were when the call started.
ScaledEstimateOfLastCall ==
  LET u        == LastCall.userID
      window   == CurrentWindow(LastCall.now)
      current  == Count(Get(before.kv, WindowKey(u, window)))
      previous == Count(Get(before.kv, WindowKey(u, window - intervalInSeconds)))
      elapsed  == window % intervalInSeconds
  IN  current * intervalInSeconds + previous * (intervalInSeconds - elapsed)

\* C13: sliding window: a call is denied exactly when its estimate is at
\* least maximumRequests; a positive estimate below maximumRequests is allowed.
C13_DeniedIffEstimateAtLimit ==
  (strategy = "SlidingWindow" /\ trace # <<>> /\ Active = {}) =>
    (~LastCall.allowed <=>
       ScaledEstimateOfLastCall >= maximumRequests * intervalInSeconds)

\* The start of the interval-aligned window that time t lies in.
AlignedWindowStart(t) == t - (t % intervalInSeconds)

\* C14: fixed window: two calls of one identity use the same counter key
\* exactly when their times lie in the same interval-aligned window.
C14_SameKeyIffSameWindow ==
  strategy = "FixedWindow" =>
    \A i, j \in DOMAIN trace :
      trace[i].userID = trace[j].userID =>
        ((WindowKey(trace[i].userID, CurrentWindow(trace[i].now))
            = WindowKey(trace[j].userID, CurrentWindow(trace[j].now)))
         <=> AlignedWindowStart(trace[i].now) = AlignedWindowStart(trace[j].now))

\* C15: sliding log: every allowed call, repeated uniqueRequestID or not,
\* makes the log one entry longer.
C15_AllowedAddsOneEntry ==
  (strategy = "SlidingLogs" /\ trace # <<>> /\ Active = {} /\ LastCall.allowed) =>
    Cardinality(DOMAIN zsets[LastCall.userID])
      = Cardinality(DOMAIN before.zsets[LastCall.userID]) + 1

\* The ledger of the identity of the last call was in the store when the call
\* started.
LedgerPresentBefore ==
  /\ KeyResetTime(LastCall.userID) \in DOMAIN before.kv
  /\ KeyCount(LastCall.userID) \in DOMAIN before.kv

\* C16: token bucket, sequential calls on an identity whose ledger is present:
\* when now - lastResetTime >= intervalInSeconds the call refills (count set to
\* maximumRequests, last reset time set to now), is allowed and takes one
\* token; otherwise it is allowed exactly when the count is above 0, an allowed
\* call lowers the count by 1 and leaves the reset time, and a denied call
\* changes neither.
C16_LedgerStep ==
  (strategy = "TokenBucket" /\ trace # <<>> /\ Active = {} /\ LedgerPresentBefore) =>
    LET u             == LastCall.userID
        now           == LastCall.now
        lastResetTime == before.kv[KeyResetTime(u)].val
        tokens        == before.kv[KeyCount(u)].val
    IN  IF now - lastResetTime >= intervalInSeconds
          THEN /\ LastCall.allowed
               /\ kv[KeyCount(u)].val = maximumRequests - 1
               /\ kv[KeyResetTime(u)].val = now
          ELSE /\ LastCall.allowed <=> tokens > 0
               /\ LastCall.allowed =>
                    /\ kv[KeyCount(u)].val = tokens - 1
                    /\ kv[KeyResetTime(u)].val = lastResetTime
               /\ ~LastCall.allowed => kv = before.kv

\* C16's case: on a present ledger one call was denied for want of tokens,
\* and a later call, an interval after the last refill, refilled and was
\* allowed.
C16_Witness ==
  /\ strategy = "TokenBucket"
  /\ Active = {}
  /\ Len(trace) >= 3
  /\ LedgerPresentBefore
  /\ ~trace[Len(trace) - 1].allowed
  /\ LastCall.allowed
  /\ LastCall.now - before.kv[KeyResetTime(LastCall.userID)].val >= intervalInSeconds
  /\ kv[KeyCount(LastCall.userID)].val = maximumRequests - 1

\* C17: fixed window and sliding window, with concurrent calls and keys that
\* expire between two commands: every window counter in the store carries an
\* expiry.
C17_CountersCarryExpiry ==
  strategy \in {"FixedWindow", "SlidingWindow"} =>
    \A key \in DOMAIN kv : kv[key].exp # NoExpiry

\* C18: sliding log: after a denied call that found more than
\* CompactFactor * maximumRequests entries of any age in the log of the
\* identity, no entry with a score below now - intervalInSeconds remains.
C18_DeniedCompactsLargeLog ==
  (/\ strategy = "SlidingLogs" /\ trace # <<>> /\ Active = {}
   /\ ~LastCall.allowed
   /\ Cardinality(DOMAIN before.zsets[LastCall.userID])
        > CompactFactor * maximumRequests) =>
    \A member \in DOMAIN zsets[LastCall.userID] :
      zsets[LastCall.userID][member] >= LastWindowTime(LastCall.now)

\* The window counters a call at time now reads, as they were in store s.
CurrentCounter(s, userID, now) ==
  Count(Get(s, WindowKey(userID, CurrentWindow(now))))
PreviousCounter(s, userID, now) ==
  Count(Get(s, WindowKey(userID, CurrentWindow(now) - intervalInSeconds)))

\* The allowed calls of the trace that used the window key of time now.
AllowedOnKey(userID, now) ==
  {i \in DOMAIN trace :
     /\ trace[i].allowed
     /\ WindowKey(trace[i].userID, CurrentWindow(trace[i].now))
          = WindowKey(userID, CurrentWindow(now))}

\* C19: sliding window, sequential calls: a call is allowed only when the
\* counters of the current and of the previous window were both absent or 0
\* when it started, and no window key ever has more than two allowed calls.
C19_AllowedOnlyFromZero ==
  strategy = "SlidingWindow" =>
    /\ (trace # <<>> /\ Active = {} /\ LastCall.allowed) =>
         /\ CurrentCounter(before.kv, LastCall.userID, LastCall.now) = 0
         /\ PreviousCounter(before.kv, LastCall.userID, LastCall.now) = 0
    /\ \A i \in DOMAIN trace :
         Cardinality(AllowedOnKey(trace[i].userID, trace[i].now)) <= 2

\* C19's case: with the counter below maximumRequests, two calls on one window
\* key were allowed and the third was denied.
C19_Witness ==
  /\ strategy = "SlidingWindow"
  /\ maximumRequests >= 2
  /\ Active = {}
  /\ Len(trace) = 3
  /\ \A i \in 1..3 : trace[i].now = trace[1].now
  /\ trace[1].allowed /\ trace[2].allowed /\ ~trace[3].allowed
  /\ CurrentCounter(before.kv, LastCall.userID, LastCall.now) = 1

\* A command of a leaky bucket call on a full queue leaves the queue alone,
\* and a call that returns then is denied.
FullQueueStaysFull ==
  \A u \in Users :
    LLen(lists[u]) = maximumRequests =>
      /\ lists'[u] = lists[u]
      /\ Len(trace') > Len(trace) => ~trace'[Len(trace')].allowed

\* C20: leaky bucket, sequential calls: the queue of an identity never holds
\* more than one entry, and from the moment its length equals maximumRequests
\* no step changes it and every call that returns is denied.
C20_AtMostOneEntryThenStuck ==
  /\ [](strategy = "LeakyBucket" => \A u \in Users : LLen(lists[u]) <= 1)
  /\ [][strategy = "LeakyBucket" => FullQueueStaysFull]_vars

\* C20's case: the queue of capacity 1 is full and two calls in a row were
\* denied on it, at different times.
C20_Witness ==
  /\ strategy = "LeakyBucket"
  /\ maximumRequests = 1
  /\ Active = {}
  /\ Len(trace) >= 3
  /\ LLen(lists[LastCall.userID]) = maximumRequests
  /\ lists = before.lists
  /\ ~LastCall.allowed /\ ~trace[Len(trace) - 1].allowed
  /\ LastCall.now > trace[Len(trace) - 1].now
====
